---- MODULE Spec2Model ----
(***************************************************************************)
(* Model of cmd/checker/config.go of moira: the checker section of the     *)
(* configuration (checkerConfig), its defaults (getDefault) and its        *)
(* resolution into checker.Config (getSettings, handleParallelChecks).     *)
(*                                                                         *)
(* Strings that are parsed (the interval fields) are sequences of          *)
(* one-character strings, so that the conversion to.Duration performs is   *)
(* computed and not assumed.  A time.Duration is an int64 count of         *)
(* nanoseconds; it is kept here as sign, whole seconds and nanoseconds     *)
(* below one second, [neg, sec, nsec], because the nanosecond count of the *)
(* durations of interest does not fit the checker's integers.              *)
(***************************************************************************)
EXTENDS Integers, Sequences, FiniteSets, TLC

(***************************************************************************)
(* Bounds of the model.                                                    *)
(***************************************************************************)
\* longest override list (SetLogLevel.TriggersToLevel) that is loaded
MaxOverrides == 3
\* largest value runtime.NumCPU() reports
MaxCPU == 3
\* calls of getSettings followed on one config object
MaxCalls == 2
\* largest absolute value of a configured concurrency field
MaxParallel == 2

(***************************************************************************)
(* time.Duration and to.Duration, as used on lines 91-94 and 100.          *)
(***************************************************************************)
Digits == {"0", "1", "2", "3", "4", "5", "6", "7", "8", "9"}

DigitVal(c) ==
    CASE c = "0" -> 0 [] c = "1" -> 1 [] c = "2" -> 2 [] c = "3" -> 3
      [] c = "4" -> 4 [] c = "5" -> 5 [] c = "6" -> 6 [] c = "7" -> 7
      [] c = "8" -> 8 [] c = "9" -> 9

ZeroDuration == [neg |-> FALSE, sec |-> 0, nsec |-> 0]

\* the result of a failed parse
ParseError == [ok |-> FALSE, d |-> ZeroDuration]

\* d + (sec, nsec), both non-negative, with the carry into the seconds
AddDuration(d, sec, nsec) ==
    [neg |-> FALSE,
     sec |-> d.sec + sec + ((d.nsec + nsec) \div 1000000000),
     nsec |-> (d.nsec + nsec) % 1000000000]

\* time.leadingInt from position i of s with the value v read so far:
\* consumes [0-9]*, gives the value and the position after it
RECURSIVE leadingInt(_, _, _)
leadingInt(s, i, v) ==
    IF i <= Len(s) /\ s[i] \in Digits
    THEN leadingInt(s, i + 1, v * 10 + DigitVal(s[i]))
    ELSE [v |-> v, next |-> i]

\* time.leadingFraction: consumes [0-9]*, gives the digits as an integer f
\* and scale = 10^(number of digits)
RECURSIVE leadingFraction(_, _, _, _)
leadingFraction(s, i, f, scale) ==
    IF i <= Len(s) /\ s[i] \in Digits
    THEN leadingFraction(s, i + 1, f * 10 + DigitVal(s[i]), scale * 10)
    ELSE [f |-> f, scale |-> scale, next |-> i]

\* the end of the unit that starts at position i: the first '.' or digit
RECURSIVE unitEnd(_, _)
unitEnd(s, i) ==
    IF i <= Len(s) /\ s[i] # "." /\ s[i] \notin Digits
    THEN unitEnd(s, i + 1)
    ELSE i

\* time.unitMap: a unit is sub = TRUE with its nanoseconds (a power of ten),
\* or sub = FALSE with its whole seconds
unitMap(u) ==
    CASE u = <<"n", "s">> -> [ok |-> TRUE, sub |-> TRUE, n |-> 1]
      [] u = <<"u", "s">> -> [ok |-> TRUE, sub |-> TRUE, n |-> 1000]
      [] u = <<"m", "s">> -> [ok |-> TRUE, sub |-> TRUE, n |-> 1000000]
      [] u = <<"s">> -> [ok |-> TRUE, sub |-> FALSE, n |-> 1]
      [] u = <<"m">> -> [ok |-> TRUE, sub |-> FALSE, n |-> 60]
      [] u = <<"h">> -> [ok |-> TRUE, sub |-> FALSE, n |-> 3600]
      [] OTHER -> [ok |-> FALSE, sub |-> FALSE, n |-> 0]

\* v units as (sec, nsec): v *= unit
unitTimes(v, unit) ==
    IF unit.sub
    THEN [sec |-> v \div (1000000000 \div unit.n),
          nsec |-> (v % (1000000000 \div unit.n)) * unit.n]
    ELSE [sec |-> v * unit.n, nsec |-> 0]

\* the fraction f/scale of a unit as (sec, nsec), truncated to a nanosecond:
\* uint64(float64(f) * (float64(unit) / scale))
unitFraction(f, scale, unit) ==
    IF unit.sub
    THEN [sec |-> 0,
          nsec |-> IF scale <= unit.n THEN f * (unit.n \div scale)
                   ELSE f \div (scale \div unit.n)]
    ELSE [sec |-> (f * unit.n) \div scale,
          nsec |-> ((f * unit.n) % scale) * (1000000000 \div scale)]

\* the loop of time.ParseDuration from position i with the total d so far:
\* ([0-9]*(\.[0-9]*)?[a-z]+)+
RECURSIVE parseTerms(_, _, _)
parseTerms(s, i, d) ==
    IF i > Len(s) THEN [ok |-> TRUE, d |-> d]
    ELSE IF ~(s[i] = "." \/ s[i] \in Digits) THEN ParseError
    ELSE
      LET int == leadingInt(s, i, 0)
          pre == int.next # i
          dot == int.next <= Len(s) /\ s[int.next] = "."
          frac == IF dot THEN leadingFraction(s, int.next + 1, 0, 1)
                  ELSE [f |-> 0, scale |-> 1, next |-> int.next]
          post == dot /\ frac.next # int.next + 1
          uend == unitEnd(s, frac.next)
          unit == unitMap(SubSeq(s, frac.next, uend - 1))
      IN  IF ~pre /\ ~post THEN ParseError
          ELSE IF uend = frac.next THEN ParseError
          ELSE IF ~unit.ok THEN ParseError
          ELSE
            LET whole == unitTimes(int.v, unit)
                part == unitFraction(frac.f, frac.scale, unit)
            IN  parseTerms(s, uend,
                    AddDuration(AddDuration(d, whole.sec, whole.nsec),
                                part.sec, part.nsec))

\* time.ParseDuration: [-+]?([0-9]*(\.[0-9]*)?[a-z]+)+, and "0"
ParseDuration(s) ==
    LET signed == s # <<>> /\ s[1] \in {"-", "+"}
        neg == signed /\ s[1] = "-"
        rest == IF signed THEN Tail(s) ELSE s
    IN  IF rest = <<"0">> THEN [ok |-> TRUE, d |-> ZeroDuration]
        ELSE IF rest = <<>> THEN ParseError
        ELSE
          LET r == parseTerms(rest, 1, ZeroDuration)
          IN  IF ~r.ok THEN ParseError
              ELSE [ok |-> TRUE,
                    d |-> [r.d EXCEPT !.neg = neg /\ (r.d.sec # 0 \/ r.d.nsec # 0)]]

\* to.Duration of github.com/xiam/to on a string: the parsed duration, and
\* time.Duration(0) when the string does not parse; it has no error result
toDuration(s) == ParseDuration(s).d

\* floor(log2(n)) for n >= 1
RECURSIVE log2(_)
log2(n) == IF n <= 1 THEN 0 ELSE 1 + log2(n \div 2)

RECURSIVE pow2(_)
pow2(k) == IF k = 0 THEN 1 ELSE 2 * pow2(k - 1)

\* int64(d.Seconds()).  Duration.Seconds() is the float64
\* float64(sec) + float64(nsec)/1e9; a float64 has 53 significant bits, so
\* from 2^24 whole seconds on the sum is rounded to a multiple of
\* 2^(e-52), e = floor(log2(sec)), and reaches the next whole second when
\* the nanoseconds are within half of that of it.  int64() then truncates
\* toward zero.
SecondsInt64(d) ==
    LET e == log2(d.sec)
        up == /\ e >= 24
              /\ 1000000000 - d.nsec <= 1000000000 \div pow2(53 - e)
        mag == IF up THEN d.sec + 1 ELSE d.sec
    IN  IF d.neg THEN 0 - mag ELSE mag

(***************************************************************************)
(* The raw configuration: checkerConfig, lines 30-52.                      *)
(***************************************************************************)
\* interval strings of the configuration document
S5s == <<"5", "s">>
S10m == <<"1", "0", "m">>
S30s == <<"3", "0", "s">>
S60s == <<"6", "0", "s">>
S500ms == <<"5", "0", "0", "m", "s">>
S1500ms == <<"1", "5", "0", "0", "m", "s">>
SNeg1500ms == <<"-", "1", "5", "0", "0", "m", "s">>
S1p5s == <<"1", ".", "5", "s">>
S1h30m == <<"1", "h", "3", "0", "m">>
S194d == <<"1", "6", "7", "7", "7", "2", "1", "6", ".",
           "9", "9", "9", "9", "9", "9", "9", "9", "9", "s">>
Sabc == <<"a", "b", "c">>
S30 == <<"3", "0">>
S7d == <<"7", "d">>
Sunset == <<>>

\* strings the duration grammar rejects
MalformedStrings == {Sabc, S30, S7d}

\* values of StopCheckingInterval that are loaded
StopStrings ==
    {S30s, S60s, S500ms, S1500ms, SNeg1500ms, S1p5s, S1h30m, S194d, Sunset}
        \cup MalformedStrings

IDs == {"A", "B"}
\* the severities, and a string that is none of them
Levels == {"warn", "error", "debug", "bogus"}

\* the override lists of at most n entries
RECURSIVE OverrideLists(_)
OverrideLists(n) ==
    IF n = 0 THEN {<<>>}
    ELSE LET shorter == OverrideLists(n - 1)
         IN  shorter \cup
             {Append(l, [ID |-> id, Level |-> lv]) :
                 l \in {x \in shorter : Len(x) = n - 1}, id \in IDs, lv \in Levels}

ParallelValues == (0 - MaxParallel)..MaxParallel

\* getDefault with a stop-checking interval of 30 minutes in place of 30
\* seconds
getDefault_Stop30m ==
    [NoDataCheckInterval |-> S60s,
     StopCheckingInterval |-> <<"3", "0", "m">>,
     CheckInterval |-> S5s,
     LazyTriggersCheckInterval |-> S10m,
     MaxParallelChecks |-> 0,
     MaxParallelRemoteChecks |-> 0,
     MaxParallelPrometheusChecks |-> 0,
     SetLogLevel |-> [TriggersToLevel |-> <<>>],
     MetricEventPopBatchSize |-> 0,
     MetricEventPopDelay |-> Sunset]

\* the Checker section of getDefault(); a field the literal does not set
\* has the zero value of its type
getDefault ==
    [NoDataCheckInterval |-> S60s,
     StopCheckingInterval |-> S30s,
     CheckInterval |-> S5s,
     LazyTriggersCheckInterval |-> S10m,
     MaxParallelChecks |-> 0,
     MaxParallelRemoteChecks |-> 0,
     MaxParallelPrometheusChecks |-> 0,
     SetLogLevel |-> [TriggersToLevel |-> <<>>],
     MetricEventPopBatchSize |-> 0,
     MetricEventPopDelay |-> Sunset]

ExampleOverrides ==
    << [ID |-> "A", Level |-> "warn"], [ID |-> "B", Level |-> "error"],
       [ID |-> "A", Level |-> "debug"] >>

\* the documents that are loaded over the defaults: the interval fields
\* varied, the concurrency fields varied, the override list varied
IntervalConfigs ==
    {[getDefault EXCEPT !.StopCheckingInterval = stop,
                        !.CheckInterval = chk,
                        !.LazyTriggersCheckInterval = lazy,
                        !.NoDataCheckInterval = nodata,
                        !.MetricEventPopDelay = pop,
                        !.MetricEventPopBatchSize = IF pop = Sunset THEN 0 ELSE 100] :
        stop \in StopStrings, chk \in {S5s, Sabc}, lazy \in {S10m, S7d},
        nodata \in {S60s, S30}, pop \in {Sunset, S500ms, Sabc}}

ParallelConfigs ==
    {[getDefault EXCEPT !.MaxParallelChecks = l,
                        !.MaxParallelRemoteChecks = r,
                        !.MaxParallelPrometheusChecks = p,
                        !.SetLogLevel = [TriggersToLevel |-> o]] :
        l \in ParallelValues, r \in ParallelValues, p \in ParallelValues,
        o \in {<<>>, ExampleOverrides}}

OverrideConfigs ==
    {[getDefault EXCEPT !.MaxParallelRemoteChecks = r,
                        !.SetLogLevel = [TriggersToLevel |-> o]] :
        r \in {0, MaxParallel}, o \in OverrideLists(MaxOverrides)}

RawConfigs == IntervalConfigs \cup ParallelConfigs \cup OverrideConfigs

(***************************************************************************)
(* getSettings and handleParallelChecks, lines 54-102.                     *)
(***************************************************************************)
\* line 66 with an entry already present kept: the first occurrence wins
MapSet_KeepFirst(m, id, level) ==
    [k \in DOMAIN m \cup {id} |-> IF k \in DOMAIN m THEN m[k] ELSE level]

\* logTriggersToLevel[v.ID] = v.Level of line 66
MapSet(m, id, level) ==
    [k \in DOMAIN m \cup {id} |-> IF k = id THEN level ELSE m[k]]

\* the loop of lines 64-67 started at the second entry of the list
RECURSIVE logTriggersToLevel_OffByOne(_, _)
logTriggersToLevel_OffByOne(list, n) ==
    IF n <= 1 THEN [k \in {} |-> ""]
    ELSE [k \in DOMAIN logTriggersToLevel_OffByOne(list, n - 1) \cup {list[n].ID} |->
             IF k = list[n].ID THEN list[n].Level
             ELSE logTriggersToLevel_OffByOne(list, n - 1)[k]]

\* the loop of lines 64-67 over the first n entries of the list
RECURSIVE logTriggersToLevel(_, _)
logTriggersToLevel(list, n) ==
    IF n = 0 THEN [k \in {} |-> ""]
    ELSE MapSet(logTriggersToLevel(list, n - 1), list[n].ID, list[n].Level)

\* line 55 with <= in place of ==: a negative value is replaced too
handleParallelChecks_Clamp(v, cpu) ==
    IF v <= 0 THEN [val |-> cpu, set |-> TRUE] ELSE [val |-> v, set |-> FALSE]

\* line 56 left out: the field keeps its value
handleParallelChecks_NoSubstitute(v, cpu) ==
    IF v = 0 THEN [val |-> v, set |-> TRUE] ELSE [val |-> v, set |-> FALSE]

\* line 55 with != in place of ==
handleParallelChecks_Inverted(v, cpu) ==
    IF v # 0 THEN [val |-> cpu, set |-> TRUE] ELSE [val |-> v, set |-> FALSE]

\* handleParallelChecks on a pointer to a field that holds v, runtime.NumCPU()
\* being cpu: the value the field holds afterwards and the boolean returned
handleParallelChecks(v, cpu) ==
    IF v = 0 THEN [val |-> cpu, set |-> TRUE] ELSE [val |-> v, set |-> FALSE]

\* line 78 passing &config.MaxParallelChecks a second time: the remote
\* field is never resolved
configAfter_LocalTwice(c, cpu) ==
    [c EXCEPT !.MaxParallelChecks =
                  IF @ = 0 THEN cpu ELSE @,
              !.MaxParallelPrometheusChecks = IF @ = 0 THEN cpu ELSE @]

\* the receiver after getSettings: lines 72, 78 and 84 pass the addresses of
\* its three concurrency fields
configAfter(c, cpu) ==
    [c EXCEPT !.MaxParallelChecks = handleParallelChecks(@, cpu).val,
              !.MaxParallelRemoteChecks = handleParallelChecks(@, cpu).val,
              !.MaxParallelPrometheusChecks = handleParallelChecks(@, cpu).val]

InfoOverrides(n) ==
    [msg |-> "Found dynamic log rules in config for some triggers",
     field |-> "number_of_triggers", value |-> n]

InfoParallel(msg, n) ==
    [msg |-> msg, field |-> "number_of_cpu", value |-> n]

\* lines 68-88 with len(config.SetLogLevel.TriggersToLevel) logged on line 69
\* in place of len(logTriggersToLevel)
getSettingsLog_CountsEntries(c, cpu) ==
    << [msg |-> "Found dynamic log rules in config for some triggers",
        field |-> "number_of_triggers",
        value |-> Len(c.SetLogLevel.TriggersToLevel)] >>
    \o (IF c.MaxParallelChecks = 0
        THEN << [msg |-> "MaxParallelChecks is not configured, set it to the number of CPU",
                 field |-> "number_of_cpu", value |-> cpu] >>
        ELSE << >>)
    \o (IF c.MaxParallelRemoteChecks = 0
        THEN << [msg |-> "MaxParallelRemoteChecks is not configured, set it to the number of CPU",
                 field |-> "number_of_cpu", value |-> cpu] >>
        ELSE << >>)
    \o (IF c.MaxParallelPrometheusChecks = 0
        THEN << [msg |-> "MaxParallelPrometheusChecks is not configured, set it to the number of CPU",
                 field |-> "number_of_cpu", value |-> cpu] >>
        ELSE << >>)

\* the records logger.Info() receives, in order: lines 68-88
getSettingsLog(c, cpu) ==
    LET after == configAfter(c, cpu)
        map == logTriggersToLevel(c.SetLogLevel.TriggersToLevel,
                                  Len(c.SetLogLevel.TriggersToLevel))
    IN  << InfoOverrides(Cardinality(DOMAIN map)) >>
        \o (IF handleParallelChecks(c.MaxParallelChecks, cpu).set
            THEN << InfoParallel(
                "MaxParallelChecks is not configured, set it to the number of CPU",
                after.MaxParallelChecks) >>
            ELSE << >>)
        \o (IF handleParallelChecks(c.MaxParallelRemoteChecks, cpu).set
            THEN << InfoParallel(
                "MaxParallelRemoteChecks is not configured, set it to the number of CPU",
                after.MaxParallelRemoteChecks) >>
            ELSE << >>)
        \o (IF handleParallelChecks(c.MaxParallelPrometheusChecks, cpu).set
            THEN << InfoParallel(
                "MaxParallelPrometheusChecks is not configured, set it to the number of CPU",
                after.MaxParallelPrometheusChecks) >>
            ELSE << >>)

\* the checker.Config returned: lines 90-101, read from the receiver after
\* the three handleParallelChecks calls
getSettings(c, cpu) ==
    LET after == configAfter(c, cpu)
    IN  [CheckInterval |-> toDuration(after.CheckInterval),
         LazyTriggersCheckInterval |-> toDuration(after.LazyTriggersCheckInterval),
         NoDataCheckInterval |-> toDuration(after.NoDataCheckInterval),
         StopCheckingIntervalSeconds |->
             SecondsInt64(toDuration(after.StopCheckingInterval)),
         MaxParallelLocalChecks |-> after.MaxParallelChecks,
         MaxParallelRemoteChecks |-> after.MaxParallelRemoteChecks,
         MaxParallelPrometheusChecks |-> after.MaxParallelPrometheusChecks,
         LogTriggersToLevel |->
             logTriggersToLevel(c.SetLogLevel.TriggersToLevel,
                                Len(c.SetLogLevel.TriggersToLevel)),
         MetricEventPopBatchSize |-> after.MetricEventPopBatchSize,
         MetricEventPopDelay |-> toDuration(after.MetricEventPopDelay)]

(***************************************************************************)
(* The state machine.                                                      *)
(***************************************************************************)
VARIABLES
    pc,         \* "start": the defaults are built; "loaded": the document is read
    config,     \* the checkerConfig object getSettings is called on
    numCPU,     \* what runtime.NumCPU() reports
    calls,      \* calls of getSettings on this object so far
    entry,      \* the last call's receiver and NumCPU as they were on entry
    settings,   \* the *checker.Config the last call returned
    records,    \* the records the last call gave the logger
    first       \* the first call on this object: its entry and what it returned

vars == <<pc, config, numCPU, calls, entry, settings, records, first>>

\* no call yet: nothing returned
NoSettings == [returned |-> FALSE]
NoEntry == [config |-> getDefault, cpu |-> 0]
NoFirst == [entry |-> NoEntry, settings |-> NoSettings]

Init ==
    /\ pc = "start"
    /\ config = getDefault
    /\ numCPU \in 1..MaxCPU
    /\ calls = 0
    /\ entry = NoEntry
    /\ settings = NoSettings
    /\ records = << >>
    /\ first = NoFirst

\* a configuration document is decoded over the defaults
Load ==
    /\ pc = "start"
    /\ pc' = "loaded"
    /\ \E c \in RawConfigs : config' = c
    /\ UNCHANGED <<numCPU, calls, entry, settings, records, first>>

\* no document is supplied: the Checker section of getDefault() is used as
\* it is
LoadDefault ==
    /\ pc = "start"
    /\ pc' = "loaded"
    /\ UNCHANGED <<config, numCPU, calls, entry, settings, records, first>>

\* one call config.getSettings(logger)
GetSettings ==
    /\ pc = "loaded"
    /\ calls < MaxCalls
    /\ calls' = calls + 1
    /\ entry' = [config |-> config, cpu |-> numCPU]
    /\ records' = getSettingsLog(config, numCPU)
    /\ settings' = getSettings(config, numCPU)
    /\ config' = configAfter(config, numCPU)
    /\ first' = IF calls = 0
                THEN [entry |-> [config |-> config, cpu |-> numCPU],
                      settings |-> getSettings(config, numCPU)]
                ELSE first
    /\ UNCHANGED <<pc, numCPU>>

\* the processor count the host reports differs at the next call
HostChange ==
    /\ pc = "loaded"
    /\ \E n \in 1..MaxCPU : n # numCPU /\ numCPU' = n
    /\ UNCHANGED <<pc, config, calls, entry, settings, records, first>>

Next == LoadDefault \/ Load \/ GetSettings \/ HostChange

Spec == Init /\ [][Next]_vars

(***************************************************************************)
(* Properties of getSettings.  In each, "the call" is the last call of     *)
(* getSettings: entry.config and entry.cpu are its receiver and the        *)
(* processor count on entry, settings and records what it returned and     *)
(* logged.                                                                 *)
(***************************************************************************)
Called == calls > 0

\* the override list the call was given
EntryList == entry.config.SetLogLevel.TriggersToLevel

\* the interval fields of the receiver of the call
EntryIntervals ==
    {entry.config.CheckInterval, entry.config.LazyTriggersCheckInterval,
     entry.config.NoDataCheckInterval, entry.config.StopCheckingInterval,
     entry.config.MetricEventPopDelay}

\* the concurrency field of the settings a configured value v resolves to
Resolved(v) == IF v = 0 THEN entry.cpu ELSE v

\* C1: each of the three concurrency fields of the returned settings is the
\* processor count when the configured value is 0 and the configured value
\* itself when it is not, negative values included; the call returns
\* settings whatever the concurrency fields are.
C1_ParallelResolved ==
    Called =>
        /\ settings # NoSettings
        /\ settings.MaxParallelLocalChecks = Resolved(entry.config.MaxParallelChecks)
        /\ settings.MaxParallelRemoteChecks =
               Resolved(entry.config.MaxParallelRemoteChecks)
        /\ settings.MaxParallelPrometheusChecks =
               Resolved(entry.config.MaxParallelPrometheusChecks)

\* a call with a zero, a negative and a positive concurrency field
C1_Witness ==
    /\ Called
    /\ entry.config.MaxParallelChecks = 0
    /\ entry.config.MaxParallelRemoteChecks < 0
    /\ entry.config.MaxParallelPrometheusChecks > 0
    /\ settings.MaxParallelLocalChecks = entry.cpu
    /\ settings.MaxParallelRemoteChecks < 0

\* C2 as stated: whatever integers are configured, every concurrency field
\* of the returned settings is strictly positive.
C2_AlwaysPositive ==
    Called =>
        /\ settings.MaxParallelLocalChecks > 0
        /\ settings.MaxParallelRemoteChecks > 0
        /\ settings.MaxParallelPrometheusChecks > 0

\* C2, amended: a concurrency field of the returned settings is strictly
\* positive when its configured value is not negative.
C2_NonNegativeIsPositive ==
    Called =>
        /\ entry.config.MaxParallelChecks >= 0 => settings.MaxParallelLocalChecks > 0
        /\ entry.config.MaxParallelRemoteChecks >= 0 =>
               settings.MaxParallelRemoteChecks > 0
        /\ entry.config.MaxParallelPrometheusChecks >= 0 =>
               settings.MaxParallelPrometheusChecks > 0

\* a call with all three fields unset, resolved to a positive count
C2_Witness ==
    /\ Called
    /\ entry.config.MaxParallelChecks = 0
    /\ entry.config.MaxParallelRemoteChecks = 0
    /\ entry.config.MaxParallelPrometheusChecks = 0
    /\ settings.MaxParallelLocalChecks > 0
    /\ settings.MaxParallelRemoteChecks > 0
    /\ settings.MaxParallelPrometheusChecks > 0

\* C3: every identifier of the override list is mapped by
\* LogTriggersToLevel to the level of its last occurrence in the list,
\* whatever string that level is.
C3_LastWriteWins ==
    Called =>
        \A i \in 1..Len(EntryList) :
            (\A j \in (i + 1)..Len(EntryList) : EntryList[j].ID # EntryList[i].ID)
                => /\ EntryList[i].ID \in DOMAIN settings.LogTriggersToLevel
                   /\ settings.LogTriggersToLevel[EntryList[i].ID] = EntryList[i].Level

\* the call with [(A, warn), (B, error), (A, debug)]
C3_Witness ==
    /\ Called
    /\ EntryList = << [ID |-> "A", Level |-> "warn"], [ID |-> "B", Level |-> "error"],
                      [ID |-> "A", Level |-> "debug"] >>
    /\ DOMAIN settings.LogTriggersToLevel = {"A", "B"}
    /\ settings.LogTriggersToLevel["A"] = "debug"
    /\ settings.LogTriggersToLevel["B"] = "error"

\* C4 as stated: a call whose receiver has a malformed interval string
\* returns no settings.
C4_MalformedDurationFails ==
    (Called /\ EntryIntervals \cap MalformedStrings # {}) => settings = NoSettings

\* whole seconds of a duration, truncated toward zero
TruncatedSeconds(d) == IF d.neg THEN 0 - d.sec ELSE d.sec

\* C5 as stated: for every StopCheckingInterval the grammar accepts,
\* StopCheckingIntervalSeconds is the duration's length in seconds
\* truncated toward zero.
C5_StopSecondsTruncated ==
    (Called /\ ParseDuration(entry.config.StopCheckingInterval).ok) =>
        settings.StopCheckingIntervalSeconds =
            TruncatedSeconds(ParseDuration(entry.config.StopCheckingInterval).d)

\* C6: the keys of LogTriggersToLevel are exactly the identifiers of the
\* override list, so they are no more than its entries and none for the
\* empty list.
C6_KeysAreIdentifiers ==
    Called =>
        /\ DOMAIN settings.LogTriggersToLevel =
               {EntryList[i].ID : i \in 1..Len(EntryList)}
        /\ Cardinality(DOMAIN settings.LogTriggersToLevel) <= Len(EntryList)
        /\ EntryList = << >> => DOMAIN settings.LogTriggersToLevel = {}

\* a call with three entries over two identifiers
C6_Witness ==
    /\ Called
    /\ Len(EntryList) = 3
    /\ Cardinality({EntryList[i].ID : i \in 1..3}) = 2
    /\ Cardinality(DOMAIN settings.LogTriggersToLevel) = 2

\* the substitution record of a category with configured value v, if any
Substitution(msg, v) ==
    IF v = 0
    THEN << [msg |-> msg, field |-> "number_of_cpu", value |-> entry.cpu] >>
    ELSE << >>

\* C7: the records of a call are the override record with the number of
\* distinct identifiers, then one substitution record with the processor
\* count for each category configured 0, in the order local, remote,
\* prometheus, and none for the other categories.
C7_RecordsInOrder ==
    Called =>
        records =
            << [msg |-> "Found dynamic log rules in config for some triggers",
                field |-> "number_of_triggers",
                value |-> Cardinality({EntryList[i].ID : i \in 1..Len(EntryList)})] >>
            \o Substitution(
                   "MaxParallelChecks is not configured, set it to the number of CPU",
                   entry.config.MaxParallelChecks)
            \o Substitution(
                   "MaxParallelRemoteChecks is not configured, set it to the number of CPU",
                   entry.config.MaxParallelRemoteChecks)
            \o Substitution(
                   "MaxParallelPrometheusChecks is not configured, set it to the number of CPU",
                   entry.config.MaxParallelPrometheusChecks)

\* a call with a repeated identifier, local and prometheus unset and remote
\* set: three records, the override record first
C7_Witness ==
    /\ Called
    /\ Len(EntryList) > Cardinality({EntryList[i].ID : i \in 1..Len(EntryList)})
    /\ entry.config.MaxParallelChecks = 0
    /\ entry.config.MaxParallelRemoteChecks # 0
    /\ entry.config.MaxParallelPrometheusChecks = 0
    /\ Len(records) = 3
    /\ records[1].field = "number_of_triggers"
    /\ records[3].value = entry.cpu

\* C8: the first call on the Checker section of getDefault() returns the
\* settings of the defaults table: 60 s, 5 s, 10 min, 30 seconds, the three
\* concurrency fields the processor count, no overrides, batch size and pop
\* delay zero.
C8_DefaultsResolved ==
    (calls = 1 /\ entry.config = getDefault) =>
        settings =
            [NoDataCheckInterval |-> [neg |-> FALSE, sec |-> 60, nsec |-> 0],
             CheckInterval |-> [neg |-> FALSE, sec |-> 5, nsec |-> 0],
             LazyTriggersCheckInterval |-> [neg |-> FALSE, sec |-> 600, nsec |-> 0],
             StopCheckingIntervalSeconds |-> 30,
             MaxParallelLocalChecks |-> entry.cpu,
             MaxParallelRemoteChecks |-> entry.cpu,
             MaxParallelPrometheusChecks |-> entry.cpu,
             LogTriggersToLevel |-> [k \in {} |-> ""],
             MetricEventPopBatchSize |-> 0,
             MetricEventPopDelay |-> [neg |-> FALSE, sec |-> 0, nsec |-> 0]]

\* the defaults resolved on a host with more than one processor
C8_Witness ==
    /\ calls = 1
    /\ entry.config = getDefault
    /\ entry.cpu > 1
    /\ settings.MaxParallelPrometheusChecks = entry.cpu
    /\ settings.StopCheckingIntervalSeconds = 30

\* C9: a second call on the same object returns the settings of the first,
\* also when the processor count has changed in between.
C9_SecondCallSame ==
    calls >= 2 => settings = first.settings

\* a second call on an object with an unset concurrency field, made after
\* the processor count changed
C9_Witness ==
    /\ calls = 2
    /\ first.entry.config.MaxParallelChecks = 0
    /\ entry.cpu # first.entry.cpu
    /\ settings.MaxParallelLocalChecks = first.entry.cpu

\* C10 as stated: after the call every field of the receiver holds the
\* value it held before the call.
C10_ConfigUnchanged ==
    Called => config = entry.config

\* C10, amended: after the call every field of the receiver holds the value
\* it held before the call, except a concurrency field that held 0, which
\* holds the processor count.
C10_OnlyUnsetParallelWritten ==
    Called =>
        config = [entry.config EXCEPT
                     !.MaxParallelChecks = IF @ = 0 THEN entry.cpu ELSE @,
                     !.MaxParallelRemoteChecks = IF @ = 0 THEN entry.cpu ELSE @,
                     !.MaxParallelPrometheusChecks = IF @ = 0 THEN entry.cpu ELSE @]

\* a call that wrote one concurrency field and left another, non-zero one
C10_Witness ==
    /\ Called
    /\ entry.config.MaxParallelChecks = 0
    /\ config.MaxParallelChecks = entry.cpu
    /\ entry.config.MaxParallelRemoteChecks < 0
    /\ config.MaxParallelRemoteChecks = entry.config.MaxParallelRemoteChecks
    /\ config.CheckInterval = entry.config.CheckInterval

====
